---- MODULE Spec2Model ----
(***************************************************************************)
(* Novikov-Thorne thin disk module (sim5disk-nt.c): the six module statics,*)
(* disk_nt_setup with its luminosity-mode inversion, the radius queries    *)
(* and disk_nt_dump.                                                       *)
(*                                                                         *)
(* Numbers.  A C double is an integer count of a fixed unit (exact up to   *)
(* 2^31); a C float keeps 24 significant bits of that count, so a store    *)
(* into one of the float statics rounds (ToFloat).  Units:                 *)
(*   accretion rate, luminosity : 100.0 = 2^28 units                       *)
(*   radius, spin, mass, alpha  : 1.0   = 2^26 units                       *)
(* Algebraic formulas (r_min, ell) are evaluated as the code writes them,  *)
(* in a 2^-10 fixed point with integer square and cube roots.              *)
(***************************************************************************)
EXTENDS Integers, Sequences, FiniteSets

VARIABLES
    disk_nt_bh_mass,     \* static float disk_nt_bh_mass
    disk_nt_bh_spin,     \* static float disk_nt_bh_spin
    disk_nt_disk_mdot,   \* static float disk_nt_disk_mdot
    disk_nt_disk_rms,    \* static float disk_nt_disk_rms
    disk_nt_disk_alpha,  \* static float disk_nt_disk_alpha
    disk_nt_options,     \* static int   disk_nt_options
    pc,                  \* where the thread inside disk_nt_setup stands
    call,                \* arguments of the most recent disk_nt_setup call
    rt,                  \* locals of disk_nt_find_mdot_for_luminosity / rtbis
    last,                \* the most recent completed call and what it returned
    streams,             \* FILE streams: opened by dump and not yet closed; stdout
    observed             \* what a second thread's read returned (SpecConc only)

cfg == <<disk_nt_bh_mass, disk_nt_bh_spin, disk_nt_disk_mdot,
         disk_nt_disk_rms, disk_nt_disk_alpha, disk_nt_options>>

vars == <<disk_nt_bh_mass, disk_nt_bh_spin, disk_nt_disk_mdot,
          disk_nt_disk_rms, disk_nt_disk_alpha, disk_nt_options,
          pc, call, rt, last, streams, observed>>

-----------------------------------------------------------------------------
(* Number formats *)

RUnit == 2^26            \* 1.0 as a radius, spin, mass or alpha
QShift == 2^16           \* RUnit / QOne
QOne == 2^10             \* 1.0 in the 2^-10 fixed point of the formulas
Mantissa == 2^24         \* a float significand holds 24 bits

RECURSIVE Ulp(_)
Ulp(m) == IF m < Mantissa THEN 1 ELSE 2 * Ulp(m \div 2)

RoundTo(m, u) ==
    LET q == m \div u
        r == m % u
    IN  IF 2 * r < u THEN q * u
        ELSE IF 2 * r > u THEN (q + 1) * u
        ELSE (IF q % 2 = 0 THEN q ELSE q + 1) * u

\* double -> float: round to nearest, ties to even, on 24 significant bits.
ToFloat(x) == IF x >= 0 THEN RoundTo(x, Ulp(x)) ELSE 0 - RoundTo(0 - x, Ulp(0 - x))

RECURSIVE SqrtBis(_, _, _)
SqrtBis(n, lo, hi) ==
    IF hi - lo <= 1 THEN lo
    ELSE LET mid == (lo + hi) \div 2
         IN  IF mid * mid <= n THEN SqrtBis(n, mid, hi) ELSE SqrtBis(n, lo, mid)

RECURSIVE CbrtBis(_, _, _)
CbrtBis(n, lo, hi) ==
    IF hi - lo <= 1 THEN lo
    ELSE LET mid == (lo + hi) \div 2
         IN  IF mid * mid * mid <= n THEN CbrtBis(n, mid, hi) ELSE CbrtBis(n, lo, mid)

\* sqrt(x) and pow(x, 1./3.) on 2^-10 fixed point values.
Sqrt(x) == SqrtBis(x * QOne, 0, 46341)
Cbrt(x) == CbrtBis(x * QOne * QOne, 0, 1291)

ToQ(x) == x \div QShift

-----------------------------------------------------------------------------
(* disk_nt_r_min *)

Eps == 67109             \* 1e-3 in radius units (1e-3 * 2^26)

RMinOf(a) ==
    LET aq  == ToQ(a)
        sga == IF a >= 0 THEN 1 ELSE 0 - 1
        a2  == (aq * aq) \div QOne
        z1  == QOne + (Cbrt(QOne - a2) * (Cbrt(QOne + aq) + Cbrt(QOne - aq))) \div QOne
        z2  == Sqrt(3 * a2 + (z1 * z1) \div QOne)
        r0  == 3 * QOne + z2
               - sga * Sqrt(((3 * QOne - z1) * (3 * QOne + z1 + 2 * z2)) \div QOne)
    IN  r0 * QShift + Eps

-----------------------------------------------------------------------------
(* disk_nt_lumi *)

\* The quadrature of func_luminosity over [log r_ms, log 1e5] with the unit
\* factors (M*grav_radius)^2 / (L_Edd*M), per unit of mdot, in 1/1024: the
\* flux is linear in mdot/M and M cancels.  Tabulated for the spins drawn.
LumiPerMdot(a) ==
    CASE ToQ(a) = 0       -> 932
      [] ToQ(a) = 921     -> 2537
      [] ToQ(a) = 0 - 512 -> 735

MulQ(m, k) == (m \div QOne) * k + ((m % QOne) * k) \div QOne

LumiOf(mdot, a) == MulQ(mdot, LumiPerMdot(a))

disk_nt_lumi == LumiOf(disk_nt_disk_mdot, disk_nt_bh_spin)

-----------------------------------------------------------------------------
(* Inputs *)

Disks == {<<5 * RUnit, 6710886>>, <<10 * RUnit, 2^25 + 1>>}
                                                 \* <<M, alpha>>: 5, 0.1; 10, 0.5+
Spins == {0, 60397978, 0 - 2^25}                 \* 0, 0.9, -0.5
MdotOrL == {0, 2685, 268435, 2684354, 2^27 + 1, 3 * 2^28}
                                                 \* 0, 1e-3, 0.1, 1.0, 50, 300
OptionBits == {0, 1, 2}

\* RMinOf on the spins the static can hold, evaluated once.
RMinMemo == [a \in {ToFloat(s) : s \in Spins} |-> RMinOf(a)]

NoCall == [M |-> 0, a |-> 0, x |-> 0, alpha |-> 0, options |-> 0, made |-> FALSE]
NoRt == [invoked |-> FALSE, first |-> "none", f |-> 0, fmid |-> 0, rtb |-> 0,
         dx |-> 0, j |-> 0, res |-> 0, L |-> 0, before |-> 0,
         n |-> 0, xmdot |-> 0, read |-> 0, resid |-> 0, stored |-> {}]
NoIo == [path |-> "", fopen |-> 0, fclose |-> 0, header |-> 0, rows |-> 0,
         diag |-> 0, tostdout |-> FALSE]
NoObs == [op |-> "none", val |-> 0, before |-> 0, during |-> FALSE]

Init ==
    /\ disk_nt_bh_mass = 10 * RUnit
    /\ disk_nt_bh_spin = 0
    /\ disk_nt_disk_mdot = 268435
    /\ disk_nt_disk_rms = 6 * RUnit
    /\ disk_nt_disk_alpha = 6710886
    /\ disk_nt_options = 0
    /\ pc = "idle"
    /\ call = NoCall
    /\ rt = NoRt
    /\ last = [op |-> "none", r |-> 0, val |-> 0, io |-> NoIo]
    /\ streams = [open |-> 0, stdout |-> TRUE]
    /\ observed = NoObs

-----------------------------------------------------------------------------
(* disk_nt_setup *)

DISK_NT_OPTION_LUMINOSITY == 1

HasLuminosityAnyBit(options) == options # 0

\* disk_nt_options & DISK_NT_OPTION_LUMINOSITY
HasLuminosity(options) == (options \div DISK_NT_OPTION_LUMINOSITY) % 2 = 1

SetupRmsStale(a) == ToFloat(RMinOf(disk_nt_bh_spin))

\* disk_nt_disk_rms = disk_nt_r_min(), which reads the spin just stored.
SetupRms(a) == ToFloat(RMinMemo[ToFloat(a)])

disk_nt_setup(M, a, mdot_or_L, alpha, options) ==
    /\ pc = "idle"
    /\ disk_nt_bh_mass' = ToFloat(M)
    /\ disk_nt_bh_spin' = ToFloat(a)
    /\ disk_nt_disk_rms' = SetupRms(a)
    /\ disk_nt_disk_alpha' = ToFloat(alpha)
    /\ disk_nt_options' = options
    /\ call' = [M |-> M, a |-> a, x |-> mdot_or_L, alpha |-> alpha,
                options |-> options, made |-> TRUE]
    /\ last' = [op |-> "none", r |-> 0, val |-> 0, io |-> NoIo]
    /\ observed' = NoObs
    /\ IF HasLuminosity(options)
       THEN /\ disk_nt_disk_mdot' = disk_nt_disk_mdot
            /\ rt' = [NoRt EXCEPT !.invoked = TRUE, !.before = disk_nt_disk_mdot]
            /\ pc' = "bracket"
       ELSE /\ disk_nt_disk_mdot' = ToFloat(mdot_or_L)
            /\ rt' = [NoRt EXCEPT !.before = disk_nt_disk_mdot]
            /\ pc' = "return"
    /\ UNCHANGED streams

-----------------------------------------------------------------------------
(* disk_nt_find_mdot_for_luminosity: fce and the rtbis call *)

BracketLo == 0           \* rtbis(0.0, ...
BracketHi == 2^28        \*        100.0, ...
Tol == 3                 \*        1e-6: |dx| < 1e-6 iff |dx| < 3 units (2.68)
MAX_STEPS == 500

Abs(x) == IF x >= 0 THEN x ELSE 0 - x

FceStoreLocal(xmdot) == disk_nt_disk_mdot

\* disk_nt_disk_mdot = xmdot;
FceStore(xmdot) == ToFloat(xmdot)

FceValueStale(L0, stored) == L0 - disk_nt_lumi

\* return L0-disk_nt_lumi();   evaluated after the store
FceValue(L0, stored) == L0 - LumiOf(stored, disk_nt_bh_spin)

\* One call of fce from rtbis: the locals after it.
Evaluated(xmdot, stored, value) ==
    [rt EXCEPT !.n = rt.n + 1, !.xmdot = xmdot, !.read = stored,
               !.resid = value, !.stored = rt.stored \cup {stored}]

\* (f*fmid) >= 0.0
NotBracketed(f, fmid) ==
    \/ f = 0
    \/ fmid = 0
    \/ (f > 0) = (fmid > 0)

\* The two function values at the ends of the bracket.  The order of the two
\* evaluations is not fixed by the contract of the bisection.
RtbisFirst ==
    /\ pc = "bracket"
    /\ \E end \in {"x1", "x2"} :
          LET xm     == IF end = "x1" THEN BracketLo ELSE BracketHi
              stored == FceStore(xm)
              value  == FceValue(call.x, stored)
          IN  /\ disk_nt_disk_mdot' = stored
              /\ rt' = [Evaluated(xm, stored, value) EXCEPT
                           !.first = end,
                           !.f = IF end = "x1" THEN value ELSE rt.f,
                           !.fmid = IF end = "x2" THEN value ELSE rt.fmid]
    /\ pc' = "bracket2"
    /\ UNCHANGED <<disk_nt_bh_mass, disk_nt_bh_spin, disk_nt_disk_rms,
                   disk_nt_disk_alpha, disk_nt_options, call, last, streams, observed>>

RtbisSecond ==
    /\ pc = "bracket2"
    /\ LET end    == IF rt.first = "x1" THEN "x2" ELSE "x1"
           xm     == IF end = "x1" THEN BracketLo ELSE BracketHi
           stored == FceStore(xm)
           value  == FceValue(call.x, stored)
           f      == IF end = "x1" THEN value ELSE rt.f
           fmid   == IF end = "x2" THEN value ELSE rt.fmid
           ev     == [Evaluated(xm, stored, value) EXCEPT !.f = f, !.fmid = fmid]
       IN  /\ disk_nt_disk_mdot' = stored
           /\ IF NotBracketed(f, fmid)
              THEN /\ rt' = [ev EXCEPT !.res = 0]
                   /\ pc' = "return"
              ELSE /\ rt' = [ev EXCEPT
                                !.rtb = IF f < 0 THEN BracketLo ELSE BracketHi,
                                !.dx  = IF f < 0 THEN BracketHi - BracketLo
                                                 ELSE BracketLo - BracketHi]
                   /\ pc' = "bisect"
    /\ UNCHANGED <<disk_nt_bh_mass, disk_nt_bh_spin, disk_nt_disk_rms,
                   disk_nt_disk_alpha, disk_nt_options, call, last, streams, observed>>

\* One pass of the halving loop.
RtbisStep ==
    /\ pc = "bisect"
    /\ LET dx     == rt.dx \div 2
           xmid   == rt.rtb + dx
           stored == FceStore(xmid)
           fmid   == FceValue(call.x, stored)
           rtb    == IF fmid <= 0 THEN xmid ELSE rt.rtb
           brk    == Abs(dx) < Tol \/ fmid = 0
           j      == IF brk THEN rt.j ELSE rt.j + 1
           ev     == [Evaluated(xmid, stored, fmid) EXCEPT
                         !.fmid = fmid, !.dx = dx, !.rtb = rtb, !.j = j]
       IN  /\ disk_nt_disk_mdot' = stored
           /\ IF brk
              THEN /\ rt' = [ev EXCEPT !.res = 1, !.L = rtb]
                   /\ pc' = "return"
              ELSE IF j >= MAX_STEPS
              THEN /\ rt' = [ev EXCEPT !.res = 0]
                   /\ pc' = "return"
              ELSE /\ rt' = ev
                   /\ pc' = "bisect"
    /\ UNCHANGED <<disk_nt_bh_mass, disk_nt_bh_spin, disk_nt_disk_rms,
                   disk_nt_disk_alpha, disk_nt_options, call, last, streams, observed>>

FindReturnInverted(res, L) == IF res # 0 THEN 0 ELSE L

\* return (res) ? L : 0.0;
FindReturn(res, L) == IF res # 0 THEN L ELSE 0

SetupMdotKept(found) == disk_nt_disk_mdot

\* disk_nt_disk_mdot = disk_nt_find_mdot_for_luminosity(mdot_or_L);
SetupMdot(found) == ToFloat(found)

SetupStatusOfInversion(res) == IF rt.invoked /\ res = 0 THEN 1 ELSE 0

\* return 0;
SetupStatus(res) == 0

SetupReturn ==
    /\ pc = "return"
    /\ disk_nt_disk_mdot' = IF rt.invoked THEN SetupMdot(FindReturn(rt.res, rt.L))
                                          ELSE disk_nt_disk_mdot
    /\ last' = [op |-> "setup", r |-> 0, val |-> SetupStatus(rt.res), io |-> NoIo]
    /\ rt' = [rt EXCEPT !.before = 0]
    /\ pc' = "idle"
    /\ UNCHANGED <<disk_nt_bh_mass, disk_nt_bh_spin, disk_nt_disk_rms,
                   disk_nt_disk_alpha, disk_nt_options, call, streams, observed>>

-----------------------------------------------------------------------------
(* Radius queries.  flux and sigma beyond the edge carry logarithms and      *)
(* fractional powers; their values are kept up to sign: 0, or 1 for a value  *)
(* that is strictly positive.  M > 0 and alpha > 0 in every configuration.   *)

Sgn(x) == IF x > 0 THEN 1 ELSE IF x < 0 THEN 0 - 1 ELSE 0

\* f0-f1-f2-f3: x - x0 and every logarithm vanish at x = x0 (r = r_ms).
PageThorne(r) == Sgn(r - disk_nt_disk_rms)

disk_nt_r_min == RMinMemo[disk_nt_bh_spin]

disk_nt_flux(r) ==
    IF r <= disk_nt_disk_rms THEN 0
    ELSE PageThorne(r) * Sgn(disk_nt_disk_mdot)

disk_nt_mdot == disk_nt_disk_mdot

disk_nt_sigma(r) ==
    IF r < disk_nt_disk_rms THEN 0
    ELSE LET xL    == PageThorne(r)
             xMdot == Sgn(disk_nt_disk_mdot)
             r_im  == xMdot * xL          \* 40*pow(xMdot,16/20)*...*pow(xL,16/21)
         IN  IF r_im > 0
             THEN 1                       \* either zone: both formulas positive
             ELSE xMdot * xL              \* r < 0 fails: 5e4*pow(xMdot,3/5)*...*pow(xL,3/5)

EllClampMin(r) == IF disk_nt_disk_rms <= r THEN disk_nt_disk_rms ELSE r

\* r = fmax(disk_nt_disk_rms, r);
EllClamp(r) == IF disk_nt_disk_rms >= r THEN disk_nt_disk_rms ELSE r

\* (r*r-2.*a*sqrt(r)+a*a) / (sqrt(r)*r-2.*sqrt(r)+a), in 2^-10 fixed point
EllAt(r, a) ==
    LET rq == ToQ(r)
        aq == ToQ(a)
        sq == Sqrt(rq)
        num == (rq * rq) \div QOne - (2 * aq * sq) \div QOne + (aq * aq) \div QOne
        den == (sq * rq) \div QOne - 2 * sq + aq
    IN  (num * QOne) \div den

disk_nt_ell(r) == EllAt(EllClamp(r), disk_nt_bh_spin)

disk_nt_vr(r) == 0

disk_nt_h(r) == 0

disk_nt_dhdr(r) == 0

\* Radii asked for: well inside the edge, just inside, on it, the unrounded
\* r_min(), and far outside.
QueryRadii ==
    {RUnit, disk_nt_disk_rms - 32, disk_nt_disk_rms, disk_nt_r_min, 10 * RUnit}

Returned(op, r, val) ==
    /\ pc = "idle"
    /\ last' = [op |-> op, r |-> r, val |-> val, io |-> NoIo]
    /\ UNCHANGED <<disk_nt_bh_mass, disk_nt_bh_spin, disk_nt_disk_mdot,
                   disk_nt_disk_rms, disk_nt_disk_alpha, disk_nt_options,
                   pc, call, rt, streams, observed>>

CallRMin == Returned("r_min", 0, disk_nt_r_min)

CallFlux == \E r \in QueryRadii : Returned("flux", r, disk_nt_flux(r))

CallLumiLeavesTrial ==
    /\ pc = "idle"
    /\ last' = [op |-> "lumi", r |-> 0, val |-> disk_nt_lumi, io |-> NoIo]
    /\ disk_nt_disk_mdot' = 0
    /\ UNCHANGED <<disk_nt_bh_mass, disk_nt_bh_spin, disk_nt_disk_rms,
                   disk_nt_disk_alpha, disk_nt_options, pc, call, rt, streams, observed>>

CallLumi == Returned("lumi", 0, disk_nt_lumi)

CallMdot == Returned("mdot", 0, disk_nt_mdot)

CallSigma == \E r \in QueryRadii : Returned("sigma", r, disk_nt_sigma(r))

CallEll == \E r \in QueryRadii : Returned("ell", r, disk_nt_ell(r))

CallVr == \E r \in QueryRadii : Returned("vr", r, disk_nt_vr(r))

CallH == \E r \in QueryRadii : Returned("h", r, disk_nt_h(r))

CallDhdr == \E r \in QueryRadii : Returned("dhdr", r, disk_nt_dhdr(r))

CallDone == Returned("done", 0, 0)

-----------------------------------------------------------------------------
(* disk_nt_dump *)

HeaderLines == 13
DumpRMax == 2000

\* for (r=disk_nt_disk_rms; r<disk_rmax; r*=1.05): the number of rows
DumpNext(r) == r + r \div 20

RECURSIVE DumpLoop(_, _)
DumpLoop(r, n) ==
    LET r1 == DumpNext(r)
        r2 == DumpNext(r1)
        r3 == DumpNext(r2)
        top == DumpRMax * QOne
    IN  IF ~(r < top) THEN n
        ELSE IF ~(r1 < top) THEN n + 1
        ELSE IF ~(r2 < top) THEN n + 2
        ELSE IF ~(r3 < top) THEN n + 3
        ELSE DumpLoop(DumpNext(r3), n + 4)

DumpRowsMemo ==
    [rms \in {6 * RUnit} \cup {ToFloat(RMinMemo[a]) : a \in DOMAIN RMinMemo}
        |-> DumpLoop(ToQ(rms), 0)]

DumpRows == DumpRowsMemo[disk_nt_disk_rms]

DumpClosesNever(filename) == FALSE

\* if (filename) fclose(stream);
DumpCloses(filename) == filename # "NULL"

\* filename: "NULL" or a path; canOpen: whether fopen(filename, "w") succeeds.
disk_nt_dump(filename, canOpen) ==
    /\ pc = "idle"
    /\ LET stream == IF filename = "NULL" THEN "stdout"
                     ELSE IF canOpen THEN "file" ELSE "NULL"
           closes == stream # "NULL" /\ DumpCloses(filename)
       IN  IF stream = "NULL"
           THEN /\ last' = [op |-> "dump", r |-> 0, val |-> 0,
                            io |-> [NoIo EXCEPT !.path = filename, !.diag = 1]]
                /\ UNCHANGED streams
           ELSE /\ last' = [op |-> "dump", r |-> 0, val |-> 0,
                            io |-> [path |-> filename,
                                    fopen |-> IF stream = "file" THEN 1 ELSE 0,
                                    fclose |-> IF closes THEN 1 ELSE 0,
                                    header |-> HeaderLines,
                                    rows |-> DumpRows,
                                    diag |-> 0,
                                    tostdout |-> stream = "stdout"]]
                /\ streams' =
                      [open |-> streams.open
                                + (IF stream = "file" THEN 1 ELSE 0)
                                - (IF closes /\ stream = "file" THEN 1 ELSE 0),
                       stdout |-> streams.stdout /\ ~(closes /\ stream = "stdout")]
    /\ UNCHANGED <<disk_nt_bh_mass, disk_nt_bh_spin, disk_nt_disk_mdot,
                   disk_nt_disk_rms, disk_nt_disk_alpha, disk_nt_options,
                   pc, call, rt, observed>>

CallDump ==
    \E d \in {<<"NULL", TRUE>>, <<"disk.dat", TRUE>>, <<"disk.dat", FALSE>>} :
        disk_nt_dump(d[1], d[2])

-----------------------------------------------------------------------------
(* A second thread calling disk_nt_mdot() or disk_nt_lumi() at any moment: the *)
(* statics are plain memory, so the read returns what is stored at that point. *)

Observe(op, val) ==
    /\ observed.op = "none"
    /\ observed' = [op |-> op, val |-> val, before |-> rt.before,
                    during |-> rt.invoked /\ pc # "idle"]
    /\ UNCHANGED <<disk_nt_bh_mass, disk_nt_bh_spin, disk_nt_disk_mdot,
                   disk_nt_disk_rms, disk_nt_disk_alpha, disk_nt_options,
                   pc, call, rt, last, streams>>

ReadMdot == Observe("mdot", disk_nt_mdot)

ReadLumi == Observe("lumi", disk_nt_lumi)

-----------------------------------------------------------------------------
(* Specifications *)

SetupCall ==
    \E d \in Disks, a \in Spins, x \in MdotOrL, o \in OptionBits :
        disk_nt_setup(d[1], a, x, d[2], o)

\* One thread: queries run only between setups.
Next ==
    \/ SetupCall
    \/ RtbisFirst
    \/ RtbisSecond
    \/ RtbisStep
    \/ SetupReturn
    \/ CallRMin
    \/ CallFlux
    \/ CallLumi
    \/ CallMdot
    \/ CallSigma
    \/ CallEll
    \/ CallVr
    \/ CallH
    \/ CallDhdr
    \/ CallDump
    \/ CallDone

Spec == Init /\ [][Next]_vars

SetupCallConc ==
    \E x \in {2685, 268435, 3 * 2^28}, o \in {0, 1} :
        disk_nt_setup(10 * RUnit, 0, x, 6710886, o)

\* Two threads: one sets up, the other reads mdot or the luminosity.
NextConc ==
    \/ SetupCallConc
    \/ RtbisFirst
    \/ RtbisSecond
    \/ RtbisStep
    \/ SetupReturn
    \/ ReadMdot
    \/ ReadLumi

SpecConc == Init /\ [][NextConc]_vars

-----------------------------------------------------------------------------
(* Properties *)

Idle == pc = "idle"
LumBit == call.options % 2 = 1
FindFailed == rt.invoked /\ rt.res = 0
LRange == 2685 .. 2684354        \* L0 from 1e-3 to 1.0

\* The statics hold the arguments of the current call, each as its float.
ConfigCurrent ==
    /\ disk_nt_bh_mass = ToFloat(call.M)
    /\ disk_nt_bh_spin = ToFloat(call.a)
    /\ disk_nt_disk_rms = ToFloat(RMinOf(ToFloat(call.a)))
    /\ disk_nt_disk_alpha = ToFloat(call.alpha)
    /\ disk_nt_options = call.options

Radial == {"flux", "sigma", "ell", "vr", "h", "dhdr"}

\* C2 as stated: every radius query returns 0 for r <= r_ms.
C2_AllZeroInsideEdge ==
    (last.op \in Radial /\ last.r <= disk_nt_disk_rms) => last.val = 0

\* C2 amended: for r <= r_ms, flux, sigma, vr, h and dhdr return 0, and ell
\* returns its value at r_ms, which is positive.
C2_ZeroInsideEdgeEllAtEdge ==
    (last.op \in Radial /\ last.r <= disk_nt_disk_rms) =>
        IF last.op = "ell"
        THEN last.val = EllAt(disk_nt_disk_rms, disk_nt_bh_spin) /\ last.val > 0
        ELSE last.val = 0

C2_Witness ==
    /\ call.made
    /\ last.op = "ell"
    /\ last.r < disk_nt_disk_rms - QShift
    /\ last.val > 0

\* C3 as stated: for L0 in [1e-3, 1.0], after a luminosity-mode setup lumi()
\* is within 1e-4 of L0, relative.
C3_RecoversWithin1e4 ==
    (Idle /\ rt.invoked /\ call.x \in LRange) =>
        Abs(disk_nt_lumi - call.x) <= call.x \div 10000

\* C3 amended: for L0 in [1e-3, 1.0] the bisection succeeds and lumi() is at
\* least L0 and above it by no more than the luminosity of an accretion rate
\* of 1e-6, the bisection tolerance.
C3_RecoversWithinTolerance ==
    (Idle /\ rt.invoked /\ call.x \in LRange) =>
        /\ rt.res = 1
        /\ disk_nt_lumi >= call.x
        /\ disk_nt_lumi - call.x <= LumiOf(Tol, disk_nt_bh_spin)
        /\ (last.op = "lumi" => last.val = disk_nt_lumi)

C3_Witness ==
    /\ Idle /\ rt.invoked /\ rt.res = 1 /\ call.x \in LRange
    /\ last.op = "lumi"
    /\ last.val - call.x > call.x \div 10000

Queries == {"r_min", "flux", "sigma", "ell", "vr", "h", "dhdr", "lumi", "mdot",
            "dump", "done"}

\* C4: a call of r_min, flux, sigma, ell, vr, h, dhdr, lumi, mdot, dump or
\* done leaves the six configuration statics as they were.
C4_QueriesKeepConfig ==
    [][(pc = "idle" /\ pc' = "idle" /\ last'.op \in Queries) => cfg' = cfg]_vars

C4_Witness ==
    /\ call.made /\ Idle /\ ConfigCurrent
    /\ last.op = "dump" /\ last.io.rows > 0
    /\ ~LumBit /\ disk_nt_disk_mdot = ToFloat(call.x)

\* C5 as stated: after a setup, r_ms is ISCO(a) + 1e-3 for the spin of that
\* call and r_min() returns that same value.
C5_RmsIsRMin ==
    (Idle /\ call.made) =>
        /\ disk_nt_disk_rms = RMinOf(call.a)
        /\ (last.op = "r_min" => last.val = disk_nt_disk_rms)

\* C5 amended: after a setup, r_ms is the float nearest to ISCO(a) + 1e-3 for
\* the spin of that call as stored, and r_min() returns the unrounded double,
\* which rounds to r_ms.
C5_RmsIsRoundedRMin ==
    (Idle /\ call.made) =>
        /\ disk_nt_disk_rms = ToFloat(RMinOf(ToFloat(call.a)))
        /\ (last.op = "r_min" =>
               /\ last.val = RMinOf(ToFloat(call.a))
               /\ ToFloat(last.val) = disk_nt_disk_rms)

C5_Witness ==
    /\ Idle /\ call.made /\ call.a # 0
    /\ last.op = "r_min"
    /\ last.val # disk_nt_disk_rms

\* C6: inside the bisection the shared mdot holds the latest trial, so a
\* second thread's mdot() returns a trial; what it saw is one of the values
\* stored by that setup or the value from before it.
C6_TrialIsShared ==
    /\ (rt.invoked /\ rt.n > 0 /\ pc # "idle") => disk_nt_mdot = ToFloat(rt.xmdot)
    /\ (observed.op = "mdot" /\ observed.during) =>
           observed.val \in rt.stored \cup {observed.before}

C6_Witness ==
    /\ Idle /\ rt.invoked /\ rt.res = 1
    /\ observed.op = "mdot" /\ observed.during
    /\ observed.val # observed.before
    /\ observed.val # disk_nt_disk_mdot

\* C7: setup returns 0, whatever the arguments and whether or not the
\* inversion succeeded.
C7_SetupReturnsZero == last.op = "setup" => last.val = 0

C7_Witness == last.op = "setup" /\ FindFailed /\ last.val = 0

\* C8 as stated: find_mdot_for_luminosity runs iff the luminosity bit is set,
\* and with the bit clear mdot() equals mdot_or_L.
C8_PlainModeStoresArgument ==
    (Idle /\ call.made) =>
        /\ rt.invoked <=> LumBit
        /\ ~LumBit => disk_nt_mdot = call.x

\* C8 amended: find_mdot_for_luminosity runs, and a residual is evaluated,
\* only if the luminosity bit is set, and it runs whenever the bit is set;
\* with the bit clear mdot() equals mdot_or_L rounded to float.
C8_PlainModeStoresFloat ==
    /\ (rt.invoked \/ rt.n > 0 \/ pc \in {"bracket", "bracket2", "bisect"}) => LumBit
    /\ call.made => (LumBit => rt.invoked)
    /\ (Idle /\ call.made /\ ~LumBit) =>
           /\ disk_nt_mdot = ToFloat(call.x)
           /\ (last.op = "mdot" => last.val = ToFloat(call.x))

C8_Witness ==
    /\ Idle /\ call.made /\ call.options = 2
    /\ last.op = "mdot"
    /\ last.val = ToFloat(call.x)
    /\ last.val # call.x

\* C9 as stated: in a luminosity-mode setup the statics hold the current
\* call's values before the first residual, and each residual is L0 - L for
\* the new configuration and exactly the trial mdot.
C9_ResidualAtExactTrial ==
    /\ rt.invoked => ConfigCurrent
    /\ rt.n > 0 =>
          /\ rt.read = rt.xmdot
          /\ rt.resid = call.x - LumiOf(rt.xmdot, disk_nt_bh_spin)

\* C9 amended: the same, with the trial as fce stores it: each residual is
\* L0 - L for the new configuration and the trial rounded to float, which is
\* the value in mdot while the luminosity is evaluated.
C9_ResidualAtStoredTrial ==
    /\ rt.invoked => ConfigCurrent
    /\ rt.n > 0 =>
          /\ rt.read = ToFloat(rt.xmdot)
          /\ rt.resid = call.x - LumiOf(ToFloat(rt.xmdot), ToFloat(call.a))
          /\ pc # "idle" => disk_nt_disk_mdot = rt.read

C9_Witness ==
    /\ pc = "bisect" /\ rt.n > 2
    /\ rt.read # rt.xmdot
    /\ rt.read # rt.before
    /\ rt.resid = call.x - LumiOf(rt.read, disk_nt_bh_spin)

\* C10: dump keeps no stream: a path that opens is opened once and closed
\* once, stdout is written and never closed, and a path that does not open
\* gets one diagnostic line, no header, no rows, nothing left open.
C10_DumpReleasesStream ==
    /\ streams.open = 0
    /\ streams.stdout
    /\ last.op = "dump" =>
          LET io == last.io
          IN  /\ io.path = "NULL" =>
                    /\ io.tostdout /\ io.fopen = 0 /\ io.fclose = 0 /\ io.diag = 0
                    /\ io.header = HeaderLines /\ io.rows > 0
              /\ (io.path # "NULL" /\ io.diag = 0) =>
                    /\ ~io.tostdout /\ io.fopen = 1 /\ io.fclose = 1
                    /\ io.header = HeaderLines /\ io.rows > 0
              /\ io.diag # 0 =>
                    /\ io.path # "NULL" /\ io.diag = 1
                    /\ io.fopen = 0 /\ io.fclose = 0 /\ ~io.tostdout
                    /\ io.header = 0 /\ io.rows = 0

C10_Witness ==
    /\ last.op = "dump" /\ last.io.path # "NULL" /\ last.io.diag = 1
    /\ streams.open = 0

====
